---- MODULE Spec2Model ----
(***************************************************************************)
(* A model of pyhatchbabyrest.PyHatchBabyRest, the synchronous pygatt      *)
(* client of a Hatch Baby Rest device                                      *)
(* (src/pyhatchbabyrest/pyhatchbabyrest.py).                               *)
(*                                                                         *)
(* Python values are modelled as follows.  A str is a sequence of          *)
(* one-character strings; a bytes/bytearray value is a sequence of         *)
(* integers 0..255; None and a missing attribute are the empty sequence    *)
(* <<>> and a present value v is <<v>>; an exception is a record           *)
(* [type, args].  Every caller (thread) has a program counter: one step    *)
(* of the model is one transport call or one block of local computation    *)
(* of the method it is in, and an uncaught exception ends the call.        *)
(***************************************************************************)
EXTENDS Integers, Sequences, FiniteSets, TLC

VARIABLES
    adapter,      \* self.adapter: "started" after __init__
    device,       \* self.device: <<>> while the attribute is missing, else <<session id>>
    color,        \* self.color: <<>> or << <<red, green, blue>> >>
    brightness,   \* self.brightness: <<>> or <<int>>
    sound,        \* self.sound: <<>> or <<enum member value>>
    volume,       \* self.volume: <<>> or <<int>>
    power,        \* self.power: <<>> or <<BOOLEAN>>
    sessions,     \* transport side: sessions[i] is TRUE while session i has a link
    threads,      \* the callers using the instance
    pc,           \* per caller: where it is in the method it called
    op,           \* per caller: the public call in progress (or just ended)
    ret,          \* per caller: where _refresh_data returns to
    loc,          \* per caller: the local variables of the active frames
    exc,          \* per caller: <<>> or <<the exception the call raised>>
    log,          \* per caller: the transport calls the current public call made
    before        \* per caller: the snapshot as its current _refresh_data or
                  \* _send_command call found it (a history variable)

vars == <<adapter, device, color, brightness, sound, volume, power, sessions,
          threads, pc, op, ret, loc, exc, log, before>>

snapshot == <<color, brightness, sound, volume, power>>

(***************************************************************************)
(* Python's None / a missing attribute, and a present value.               *)
(***************************************************************************)
None == <<>>

Some(v) == <<v>>

\* Python truthiness of an optional str (the test `if name:`); names and
\* addresses are never converted, so they are kept as atomic strings
Truthy(s) == s # None /\ s[1] # ""

(***************************************************************************)
(* Text conversions.                                                       *)
(***************************************************************************)
HexDigits == <<"0", "1", "2", "3", "4", "5", "6", "7",
               "8", "9", "a", "b", "c", "d", "e", "f">>

\* the value of one digit character
DigitValue(c) == (CHOOSE i \in DOMAIN HexDigits : HexDigits[i] = c) - 1

RECURSIVE Digits(_, _)
\* the digits of x >= 0 in the given base, most significant first, no padding
Digits(x, base) ==
    IF x < base THEN <<HexDigits[x + 1]>>
    ELSE Append(Digits(x \div base, base), HexDigits[(x % base) + 1])

\* hex(x) for x >= 0: "0x" and the lowercase digits
Hex(x) == <<"0", "x">> \o Digits(x, 16)

RECURSIVE ParseDigits(_, _)
ParseDigits(s, base) ==
    IF s = <<>> THEN 0
    ELSE ParseDigits(SubSeq(s, 1, Len(s) - 1), base) * base + DigitValue(s[Len(s)])

\* int(s, base) for the literals this program parses: an optional "0x" prefix
\* (base 16 only) and then digits
ParseInt(s, base) ==
    IF base = 16 /\ Len(s) > 2 /\ s[1] = "0" /\ s[2] = "x"
    THEN ParseDigits(SubSeq(s, 3, Len(s)), base)
    ELSE ParseDigits(s, base)

\* "{:x}".format(v): the same without the padding
FormatUnpadded(v) == IF v < 0 THEN <<"-">> \o Digits(-v, 16) ELSE Digits(v, 16)

\* "{:02x}".format(v): lowercase hex, zero-padded to width 2, the sign (which
\* counts in the width) first
Format02x(v) ==
    IF v < 0 THEN <<"-">> \o Digits(-v, 16)
    ELSE IF v < 16 THEN <<"0">> \o Digits(v, 16)
    ELSE Digits(v, 16)

RECURSIVE BitAnd(_, _)
\* a & b for a, b >= 0
BitAnd(a, b) ==
    IF a = 0 \/ b = 0 THEN 0
    ELSE (a % 2) * (b % 2) + 2 * BitAnd(a \div 2, b \div 2)

AsciiChars == <<"-", "0", "1", "2", "3", "4", "5", "6", "7", "8", "9",
                "C", "I", "N", "S", "V", "a", "b", "c", "d", "e", "f">>

AsciiCodes == <<45, 48, 49, 50, 51, 52, 53, 54, 55, 56, 57,
                67, 73, 78, 83, 86, 97, 98, 99, 100, 101, 102>>

\* bytearray(command, "utf-8"): one byte per (ASCII) character
Utf8(s) == [i \in DOMAIN s |->
              AsciiCodes[CHOOSE k \in DOMAIN AsciiChars : AsciiChars[k] = s[i]]]

(***************************************************************************)
(* Constants of the protocol.                                              *)
(***************************************************************************)
\* the characteristic handles imported from .constants
CHAR_TX == "CHAR_TX"

CHAR_FEEDBACK == "CHAR_FEEDBACK"

\* the values of the members of the enumeration PyHatchBabyRestSound
KnownSounds == {0, 2, 3, 4, 5, 6, 7, 9, 10, 11, 13, 14}

\* the marker literals "0x43", "0x53", "0x50" the status packet is checked against
ColorMarker == <<"0", "x", "4", "3">>

AudioMarker == <<"0", "x", "5", "3">>

PowerMarker == <<"0", "x", "5", "0">>

\* the literal "11000000" and the base it is parsed in
PowerMaskLiteral == <<"1", "1", "0", "0", "0", "0", "0", "0">>

\* time.sleep(0.25), in milliseconds
SettleDelayMs == 250

\* the other address type of the transport
AddressTypePublic == "public"

\* pygatt.BLEAddressType.random
AddressTypeRandom == "random"

(***************************************************************************)
(* Bounds and inputs of the model.                                         *)
(***************************************************************************)
\* transport sessions one instance opens in a run
MaxSessions == 2

\* the callers of the sequential specification
Callers == {"t1"}

\* a 15-byte status packet with the three markers in place
MkPacket(r, g, b, br, snd, vol, pw) ==
    <<0, 0, 0, 0, 0, 67, r, g, b, br, 83, snd, vol, 80, pw>>

\* the packet of the scenario: color (16,32,48), brightness 255, sound 2,
\* volume 100, power on
PacketOn == MkPacket(16, 32, 48, 255, 2, 100, 0)

\* another state of the device (changed from outside), powered off, 16 bytes
PacketOff == Append(MkPacket(1, 2, 3, 4, 7, 5, 192), 0)

\* a well-formed packet whose sound byte is no member of the enumeration
PacketUnknownSound == MkPacket(9, 8, 7, 6, 200, 50, 0)

\* packets failing one marker check each
PacketBadColorMarker == [PacketOn EXCEPT ![6] = 66]

PacketBadAudioMarker == [PacketOff EXCEPT ![11] = 0]

PacketBadPowerMarker == [PacketOn EXCEPT ![14] = 255]

\* packets shorter than 15 bytes: 14 bytes with every marker in place, and 8 bytes
PacketShort14 == SubSeq(PacketOff, 1, 14)

PacketShort8 == SubSeq(PacketOn, 1, 8)

\* what a read of the FEEDBACK characteristic may return
Packets == {PacketOn, PacketOff, PacketUnknownSound, PacketBadColorMarker,
            PacketBadAudioMarker, PacketBadPowerMarker, PacketShort14,
            PacketShort8}

\* the names and addresses a caller passes to connect (None: not passed)
NameArgs == {None, Some(""), Some("rest"), Some("nursery")}

AddrArgs == {None, Some("AA:01"), Some("AA:02")}

\* what adapter.scan() may return
ScanResults == {
    <<>>,
    <<[name |-> "other", address |-> "AA:03"]>>,
    <<[name |-> "other", address |-> "AA:03"],
      [name |-> "rest", address |-> "AA:04"],
      [name |-> "rest", address |-> "AA:05"]>>,
    <<[name |-> "Rest", address |-> "AA:06"],
      [name |-> "nursery", address |-> "AA:07"]>> }

\* the integers a caller passes to the mutators
ByteArgs == {0, 7, 200, 255, 256, -1}

ColorArgs == {<<16, 32, 48>>, <<0, 255, 1>>, <<300, 0, -1>>}

(***************************************************************************)
(* Exceptions, frames and the transport log.                               *)
(***************************************************************************)
Exception(type, args) == [type |-> type, args |-> args]

\* the transport's own failure (pygatt.exceptions.BLEError and its subclasses)
BLEError == Exception("BLEError", <<>>)

\* the locals of the frames of one public call, none of them bound
NoLocals == [name |-> None, addr |-> None, devices |-> None, response |-> None,
             red |-> None, green |-> None, blue |-> None, brightness |-> None,
             sound |-> None, volume |-> None, power |-> None, command |-> None]

NoOp == [name |-> "none", args |-> <<>>]

\* the five attributes before the first refresh: none of them exists
NoSnapshot == <<None, None, None, None, None>>

\* a caller takes one step inside its call
Goto(t, newpc, newloc, newlog) ==
    /\ pc' = [pc EXCEPT ![t] = newpc]
    /\ loc' = [loc EXCEPT ![t] = newloc]
    /\ log' = [log EXCEPT ![t] = newlog]
    /\ exc' = exc

\* an exception nothing catches: the frames are gone and the call has ended
Raise(t, e, newlog) ==
    /\ pc' = [pc EXCEPT ![t] = "done"]
    /\ loc' = [loc EXCEPT ![t] = NoLocals]
    /\ log' = [log EXCEPT ![t] = newlog]
    /\ exc' = [exc EXCEPT ![t] = Some(e)]

\* the public method returns
Return(t, newlog) == Goto(t, "done", NoLocals, newlog)

\* a caller enters a public method
Begin(t, name, args) ==
    /\ pc[t] = "idle"
    /\ op' = [op EXCEPT ![t] = [name |-> name, args |-> args]]

(***************************************************************************)
(* __init__                                                                *)
(***************************************************************************)
Init ==
    /\ adapter = "started"
    /\ device = None
    /\ color = None
    /\ brightness = None
    /\ sound = None
    /\ volume = None
    /\ power = None
    /\ sessions = <<>>
    /\ threads = Callers
    /\ pc = [t \in Callers |-> "idle"]
    /\ op = [t \in Callers |-> NoOp]
    /\ ret = [t \in Callers |-> "return"]
    /\ loc = [t \in Callers |-> NoLocals]
    /\ exc = [t \in Callers |-> None]
    /\ log = [t \in Callers |-> <<>>]
    /\ before = [t \in Callers |-> NoSnapshot]

(***************************************************************************)
(* connect                                                                 *)
(***************************************************************************)
\* a connect that skips the argument check
NothingMissing(name, addr) == FALSE

\* addr is None and name is None
BothMissing(name, addr) == addr = None /\ name = None

\* connect(name, addr) up to the scan: the argument check and the choice
\* between resolving the name and connecting directly
Connect(t, name, addr) ==
    /\ Begin(t, "connect", <<name, addr>>)
    /\ Len(sessions) < MaxSessions
    /\ IF BothMissing(name, addr)
       THEN Raise(t, Exception("ValueError", <<"Either addr or name must be set.">>),
                  log[t])
       ELSE Goto(t, IF Truthy(name) THEN "connect_scan" ELSE "connect_open",
                 [loc[t] EXCEPT !.name = name, !.addr = addr], log[t])
    /\ UNCHANGED <<adapter, device, snapshot, sessions, threads, ret, before>>

\* devices = self.scan(), which is self.adapter.scan(): a list, or the
\* transport's error
ConnectScan(t) ==
    /\ pc[t] = "connect_scan"
    /\ \E found \in {None} \cup {Some(r) : r \in ScanResults} :
         LET entry == [call |-> "scan", data |-> found, ok |-> found # None] IN
         IF found = None
         THEN Raise(t, BLEError, Append(log[t], entry))
         ELSE Goto(t, "connect_resolve", [loc[t] EXCEPT !.devices = found],
                   Append(log[t], entry))
    /\ UNCHANGED <<adapter, device, snapshot, sessions, threads, op, ret, before>>

\* the for loop: the index of the first device of the list with that name, 0
\* when the loop ends without a break
FirstMatch(devices, name) ==
    LET hits == {i \in DOMAIN devices : devices[i].name = name} IN
    IF hits = {} THEN 0 ELSE CHOOSE i \in hits : \A j \in hits : i <= j

\* for device in devices: ... break / else: raise RuntimeError
ConnectResolve(t) ==
    /\ pc[t] = "connect_resolve"
    /\ LET devices == loc[t].devices[1]
           name == loc[t].name[1]
           i == FirstMatch(devices, name)
       IN  IF i = 0
           THEN Raise(t, Exception("RuntimeError",
                                   <<"Can't find device with name", name>>), log[t])
           ELSE Goto(t, "connect_open",
                     [loc[t] EXCEPT !.addr = Some(devices[i].address)], log[t])
    /\ UNCHANGED <<adapter, device, snapshot, sessions, threads, op, ret, before>>

\* self.device = self.adapter.connect(addr, address_type=random): the transport
\* opens a session or fails; nothing is at the address None.  Then
\* self._refresh_data() is called.
ConnectOpen(t) ==
    /\ pc[t] = "connect_open"
    /\ \E opened \in IF loc[t].addr = None THEN {FALSE} ELSE BOOLEAN :
         LET entry == [call |-> "connect", address |-> loc[t].addr,
                       address_type |-> AddressTypeRandom,
                       session |-> IF opened THEN Len(sessions) + 1 ELSE 0,
                       ok |-> opened] IN
         IF opened
         THEN /\ sessions' = Append(sessions, TRUE)
              /\ device' = Some(Len(sessions) + 1)
              /\ ret' = [ret EXCEPT ![t] = "return"]
              /\ before' = [before EXCEPT ![t] = snapshot]
              /\ Goto(t, "refresh_read", loc[t], Append(log[t], entry))
         ELSE /\ Raise(t, BLEError, Append(log[t], entry))
              /\ UNCHANGED <<device, sessions, ret, before>>
    /\ UNCHANGED <<adapter, snapshot, threads, op>>

(***************************************************************************)
(* _refresh_data                                                           *)
(***************************************************************************)
AttributeError(attr) ==
    Exception("AttributeError",
              <<"'PyHatchBabyRest' object has no attribute", attr>>)

IndexError == Exception("IndexError", <<"list index out of range">>)

\* a failed assert statement without a message
AssertionError == Exception("AssertionError", <<>>)

\* response[i] of the source (0-based)
Item(response, i) == response[i + 1]

\* a slice taken one element too early
SliceOneEarly(response, lo, hi) ==
    SubSeq(response, lo, IF hi - 1 < Len(response) THEN hi - 1 ELSE Len(response))

\* response[lo:hi] of the source (0-based, hi excluded, cut to the list)
Slice(response, lo, hi) ==
    SubSeq(response, lo + 1, IF hi < Len(response) THEN hi ELSE Len(response))

\* a power test that looks at the top bit only
DecodePowerTopBit(x) == ~(BitAnd(128, ParseInt(x, 16)) # 0)

\* not bool(int("11000000", 2) & int(response[14], 16))
DecodePower(x) == ~(BitAnd(ParseInt(PowerMaskLiteral, 2), ParseInt(x, 16)) # 0)

\* PyHatchBabyRestSound(value): the member with that value, if there is one
IsSound(value) == value \in KnownSounds

\* the statements of _refresh_data between the read and the assignments to
\* self, in their order: the exception the first failing one raises, or
\* the values of the locals
Decode(response) ==
    LET n == Len(response)
        fail(e) == [error |-> Some(e)]
        four == Slice(response, 6, 10)
    IN  IF n <= 5 THEN fail(IndexError)
        ELSE IF Item(response, 5) # ColorMarker THEN fail(AssertionError)
        ELSE IF n <= 10 THEN fail(IndexError)
        ELSE IF Item(response, 10) # AudioMarker THEN fail(AssertionError)
        ELSE IF n <= 13 THEN fail(IndexError)
        ELSE IF Item(response, 13) # PowerMarker THEN fail(AssertionError)
        ELSE IF Len(four) # 4
        THEN fail(Exception("ValueError", <<"not enough values to unpack">>))
        ELSE IF ~IsSound(ParseInt(Item(response, 11), 16))
        THEN fail(Exception("ValueError",
                            <<ParseInt(Item(response, 11), 16),
                              "is not a valid PyHatchBabyRestSound">>))
        ELSE IF n <= 14 THEN fail(IndexError)
        ELSE [error |-> None,
              red |-> ParseInt(four[1], 16),
              green |-> ParseInt(four[2], 16),
              blue |-> ParseInt(four[3], 16),
              brightness |-> ParseInt(four[4], 16),
              sound |-> ParseInt(Item(response, 11), 16),
              volume |-> ParseInt(Item(response, 12), 16),
              power |-> DecodePower(Item(response, 14))]

\* response = [hex(x) for x in self.device.char_read(CHAR_FEEDBACK)], the
\* transport returning one of the packets of pool or failing; a session
\* without a link only fails
RefreshReadFrom(t, pool) ==
    /\ pc[t] = "refresh_read"
    /\ IF device = None
       THEN Raise(t, AttributeError("device"), log[t])
       ELSE \E got \in IF sessions[device[1]]
                       THEN {None} \cup {Some(p) : p \in pool} ELSE {None} :
              LET entry == [call |-> "read", handle |-> CHAR_FEEDBACK,
                            session |-> device[1], data |-> got,
                            ok |-> got # None] IN
              IF got = None
              THEN Raise(t, BLEError, Append(log[t], entry))
              ELSE Goto(t, "refresh_decode",
                        [loc[t] EXCEPT !.response =
                            Some([i \in DOMAIN got[1] |-> Hex(got[1][i])])],
                        Append(log[t], entry))
    /\ UNCHANGED <<adapter, device, snapshot, sessions, threads, op, ret, before>>

RefreshRead(t) == RefreshReadFrom(t, Packets)

\* a _refresh_data that stores color and brightness as soon as it has parsed
\* them, before the sound is looked up
RefreshDecodeEager(t) ==
    /\ pc[t] = "refresh_decode"
    /\ LET r == loc[t].response[1]
           d == Decode(r)
       IN  IF d.error # None
           THEN /\ Raise(t, d.error[1], log[t])
                /\ IF d.error[1].type = "ValueError"
                   THEN /\ color' = Some(<<ParseInt(Item(r, 6), 16),
                                           ParseInt(Item(r, 7), 16),
                                           ParseInt(Item(r, 8), 16)>>)
                        /\ brightness' = Some(ParseInt(Item(r, 9), 16))
                   ELSE UNCHANGED <<color, brightness>>
           ELSE /\ Goto(t, "assign_color",
                        [loc[t] EXCEPT !.red = Some(d.red), !.green = Some(d.green),
                                       !.blue = Some(d.blue),
                                       !.brightness = Some(d.brightness),
                                       !.sound = Some(d.sound),
                                       !.volume = Some(d.volume),
                                       !.power = Some(d.power)],
                        log[t])
                /\ UNCHANGED <<color, brightness>>
    /\ UNCHANGED <<adapter, device, sound, volume, power, sessions, threads, op,
                   ret, before>>

\* a _refresh_data whose failure the color mutators swallow, going on to
\* format the command from the cached fields
RefreshDecodeLenient(t) ==
    /\ pc[t] = "refresh_decode"
    /\ LET d == Decode(loc[t].response[1]) IN
       IF d.error # None
       THEN IF ret[t] = "format"
            THEN Goto(t, "format", NoLocals, log[t])
            ELSE Raise(t, d.error[1], log[t])
       ELSE Goto(t, "assign_color",
                 [loc[t] EXCEPT !.red = Some(d.red), !.green = Some(d.green),
                                !.blue = Some(d.blue),
                                !.brightness = Some(d.brightness),
                                !.sound = Some(d.sound), !.volume = Some(d.volume),
                                !.power = Some(d.power)],
                 log[t])
    /\ UNCHANGED <<adapter, device, snapshot, sessions, threads, op, ret, before>>

\* the three asserts and the computation of red .. power
RefreshDecode(t) ==
    /\ pc[t] = "refresh_decode"
    /\ LET d == Decode(loc[t].response[1]) IN
       IF d.error # None
       THEN Raise(t, d.error[1], log[t])
       ELSE Goto(t, "assign_color",
                 [loc[t] EXCEPT !.red = Some(d.red), !.green = Some(d.green),
                                !.blue = Some(d.blue),
                                !.brightness = Some(d.brightness),
                                !.sound = Some(d.sound), !.volume = Some(d.volume),
                                !.power = Some(d.power)],
                 log[t])
    /\ UNCHANGED <<adapter, device, snapshot, sessions, threads, op, ret, before>>

\* self.color = (red, green, blue)
AssignColor(t) ==
    /\ pc[t] = "assign_color"
    /\ color' = Some(<<loc[t].red[1], loc[t].green[1], loc[t].blue[1]>>)
    /\ Goto(t, "assign_brightness", loc[t], log[t])
    /\ UNCHANGED <<adapter, device, brightness, sound, volume, power, sessions,
                   threads, op, ret, before>>

\* self.brightness = brightness
AssignBrightness(t) ==
    /\ pc[t] = "assign_brightness"
    /\ brightness' = loc[t].brightness
    /\ Goto(t, "assign_sound", loc[t], log[t])
    /\ UNCHANGED <<adapter, device, color, sound, volume, power, sessions,
                   threads, op, ret, before>>

\* self.sound = sound
AssignSound(t) ==
    /\ pc[t] = "assign_sound"
    /\ sound' = loc[t].sound
    /\ Goto(t, "assign_volume", loc[t], log[t])
    /\ UNCHANGED <<adapter, device, color, brightness, volume, power, sessions,
                   threads, op, ret, before>>

\* self.volume = volume
AssignVolume(t) ==
    /\ pc[t] = "assign_volume"
    /\ volume' = loc[t].volume
    /\ Goto(t, "assign_power", loc[t], log[t])
    /\ UNCHANGED <<adapter, device, color, brightness, sound, power, sessions,
                   threads, op, ret, before>>

\* self.power = power, and _refresh_data returns: to the caller of the public
\* method, or into set_color / set_brightness
AssignPower(t) ==
    /\ pc[t] = "assign_power"
    /\ power' = loc[t].power
    /\ IF ret[t] = "return" THEN Return(t, log[t])
       ELSE Goto(t, ret[t], NoLocals, log[t])
    /\ UNCHANGED <<adapter, device, color, brightness, sound, volume, sessions,
                   threads, op, ret, before>>

\* a direct call of _refresh_data()
Refresh(t) ==
    /\ Begin(t, "refresh", <<>>)
    /\ ret' = [ret EXCEPT ![t] = "return"]
    /\ before' = [before EXCEPT ![t] = snapshot]
    /\ Goto(t, "refresh_read", NoLocals, log[t])
    /\ UNCHANGED <<adapter, device, snapshot, sessions, threads>>

(***************************************************************************)
(* _send_command                                                           *)
(***************************************************************************)
\* a char_write that is tried again after the transport's error
SendWriteRetry(t) ==
    /\ pc[t] = "send_write"
    /\ IF device = None
       THEN Raise(t, AttributeError("device"), log[t])
       ELSE \E written \in IF sessions[device[1]] THEN BOOLEAN ELSE {FALSE} :
              LET entry == [call |-> "write", handle |-> CHAR_TX,
                            session |-> device[1],
                            data |-> Utf8(loc[t].command[1]), ok |-> written] IN
              Goto(t, IF written THEN "send_sleep" ELSE "send_write", loc[t],
                   Append(log[t], entry))
    /\ UNCHANGED <<adapter, device, snapshot, sessions, threads, op, ret, before>>

\* self.device.char_write(CHAR_TX, bytearray(command, "utf-8")): the
\* transport takes the bytes or fails; a session without a link only fails
SendWrite(t) ==
    /\ pc[t] = "send_write"
    /\ IF device = None
       THEN Raise(t, AttributeError("device"), log[t])
       ELSE \E written \in IF sessions[device[1]] THEN BOOLEAN ELSE {FALSE} :
              LET entry == [call |-> "write", handle |-> CHAR_TX,
                            session |-> device[1],
                            data |-> Utf8(loc[t].command[1]), ok |-> written] IN
              IF written
              THEN Goto(t, "send_sleep", loc[t], Append(log[t], entry))
              ELSE Raise(t, BLEError, Append(log[t], entry))
    /\ UNCHANGED <<adapter, device, snapshot, sessions, threads, op, ret, before>>

\* a _send_command that refreshes at once, without the sleep
SendNoSleep(t) ==
    /\ pc[t] = "send_sleep"
    /\ ret' = [ret EXCEPT ![t] = "return"]
    /\ Goto(t, "refresh_read", loc[t], log[t])
    /\ UNCHANGED <<adapter, device, snapshot, sessions, threads, op, before>>

\* time.sleep(0.25), then self._refresh_data() is called
SendSleep(t) ==
    /\ pc[t] = "send_sleep"
    /\ ret' = [ret EXCEPT ![t] = "return"]
    /\ Goto(t, "refresh_read", loc[t],
            Append(log[t], [call |-> "sleep", ms |-> SettleDelayMs]))
    /\ UNCHANGED <<adapter, device, snapshot, sessions, threads, op, before>>

(***************************************************************************)
(* The mutators.                                                           *)
(***************************************************************************)
RECURSIVE FormatAll(_)
\* the "{:02x}" fields of a format string, filled in order
FormatAll(values) ==
    IF values = <<>> THEN <<>>
    ELSE Format02x(Head(values)) \o FormatAll(Tail(values))

\* "<opcode>{:02x}...".format(*values)
Command(opcode, values) == opcode \o FormatAll(values)

\* a mutator builds its command and calls self._send_command(command)
CallSendCommand(t, command) ==
    /\ before' = [before EXCEPT ![t] = snapshot]
    /\ Goto(t, "send_write", [NoLocals EXCEPT !.command = Some(command)], log[t])

PowerOn(t) ==
    /\ Begin(t, "power_on", <<>>)
    /\ CallSendCommand(t, Command(<<"S", "I">>, <<1>>))
    /\ UNCHANGED <<adapter, device, snapshot, sessions, threads, ret>>

PowerOff(t) ==
    /\ Begin(t, "power_off", <<>>)
    /\ CallSendCommand(t, Command(<<"S", "I">>, <<0>>))
    /\ UNCHANGED <<adapter, device, snapshot, sessions, threads, ret>>

SetSound(t, s) ==
    /\ Begin(t, "set_sound", <<s>>)
    /\ CallSendCommand(t, Command(<<"S", "N">>, <<s>>))
    /\ UNCHANGED <<adapter, device, snapshot, sessions, threads, ret>>

SetVolume(t, v) ==
    /\ Begin(t, "set_volume", <<v>>)
    /\ CallSendCommand(t, Command(<<"S", "V">>, <<v>>))
    /\ UNCHANGED <<adapter, device, snapshot, sessions, threads, ret>>

\* set_color(red, green, blue) up to its first statement, self._refresh_data()
SetColor(t, rgb) ==
    /\ Begin(t, "set_color", rgb)
    /\ ret' = [ret EXCEPT ![t] = "format"]
    /\ before' = [before EXCEPT ![t] = snapshot]
    /\ Goto(t, "refresh_read", NoLocals, log[t])
    /\ UNCHANGED <<adapter, device, snapshot, sessions, threads>>

\* a set_brightness that trusts the cached color and does not refresh first
SetBrightnessCached(t, b) ==
    /\ Begin(t, "set_brightness", <<b>>)
    /\ Goto(t, "format", NoLocals, log[t])
    /\ UNCHANGED <<adapter, device, snapshot, sessions, threads, ret, before>>

\* set_brightness(brightness) up to its first statement, self._refresh_data()
SetBrightness(t, b) ==
    /\ Begin(t, "set_brightness", <<b>>)
    /\ ret' = [ret EXCEPT ![t] = "format"]
    /\ before' = [before EXCEPT ![t] = snapshot]
    /\ Goto(t, "refresh_read", NoLocals, log[t])
    /\ UNCHANGED <<adapter, device, snapshot, sessions, threads>>

\* set_color after the refresh: the command from the arguments and
\* self.brightness
SetColorFormat(t) ==
    /\ pc[t] = "format"
    /\ op[t].name = "set_color"
    /\ IF brightness = None
       THEN Raise(t, AttributeError("brightness"), log[t]) /\ UNCHANGED before
       ELSE CallSendCommand(t, Command(<<"S", "C">>,
                <<op[t].args[1], op[t].args[2], op[t].args[3], brightness[1]>>))
    /\ UNCHANGED <<adapter, device, snapshot, sessions, threads, op, ret>>

\* set_brightness after the refresh: the command from self.color and the
\* argument
SetBrightnessFormat(t) ==
    /\ pc[t] = "format"
    /\ op[t].name = "set_brightness"
    /\ IF color = None
       THEN Raise(t, AttributeError("color"), log[t]) /\ UNCHANGED before
       ELSE CallSendCommand(t, Command(<<"S", "C">>,
                <<color[1][1], color[1][2], color[1][3], op[t].args[1]>>))
    /\ UNCHANGED <<adapter, device, snapshot, sessions, threads, op, ret>>

(***************************************************************************)
(* disconnect                                                              *)
(***************************************************************************)
\* return self.device.disconnect(): the transport releases the session; a
\* session without a link only fails
Disconnect(t) ==
    /\ Begin(t, "disconnect", <<>>)
    /\ IF device = None
       THEN Raise(t, AttributeError("device"), <<>>) /\ UNCHANGED sessions
       ELSE LET entry == [call |-> "disconnect", session |-> device[1],
                          ok |-> sessions[device[1]]] IN
            IF sessions[device[1]]
            THEN /\ sessions' = [sessions EXCEPT ![device[1]] = FALSE]
                 /\ Return(t, <<entry>>)
            ELSE /\ Raise(t, BLEError, <<entry>>)
                 /\ UNCHANGED sessions
    /\ UNCHANGED <<adapter, device, snapshot, threads, ret, before>>

(***************************************************************************)
(* The callers.                                                            *)
(***************************************************************************)
\* the caller has the outcome of its call and is free to make the next one
Resume(t) ==
    /\ pc[t] = "done"
    /\ pc' = [pc EXCEPT ![t] = "idle"]
    /\ op' = [op EXCEPT ![t] = NoOp]
    /\ exc' = [exc EXCEPT ![t] = None]
    /\ log' = [log EXCEPT ![t] = <<>>]
    /\ before' = [before EXCEPT ![t] = NoSnapshot]
    /\ UNCHANGED <<adapter, device, snapshot, sessions, threads, ret, loc>>

Next ==
    \/ \E t \in threads, name \in NameArgs, addr \in AddrArgs : Connect(t, name, addr)
    \/ \E t \in threads : ConnectScan(t)
    \/ \E t \in threads : ConnectResolve(t)
    \/ \E t \in threads : ConnectOpen(t)
    \/ \E t \in threads : Refresh(t)
    \/ \E t \in threads : RefreshRead(t)
    \/ \E t \in threads : RefreshDecode(t)
    \/ \E t \in threads : AssignColor(t)
    \/ \E t \in threads : AssignBrightness(t)
    \/ \E t \in threads : AssignSound(t)
    \/ \E t \in threads : AssignVolume(t)
    \/ \E t \in threads : AssignPower(t)
    \/ \E t \in threads : PowerOn(t)
    \/ \E t \in threads : PowerOff(t)
    \/ \E t \in threads, s \in ByteArgs : SetSound(t, s)
    \/ \E t \in threads, v \in ByteArgs : SetVolume(t, v)
    \/ \E t \in threads, rgb \in ColorArgs : SetColor(t, rgb)
    \/ \E t \in threads, b \in ByteArgs : SetBrightness(t, b)
    \/ \E t \in threads : SetColorFormat(t)
    \/ \E t \in threads : SetBrightnessFormat(t)
    \/ \E t \in threads : SendWrite(t)
    \/ \E t \in threads : SendSleep(t)
    \/ \E t \in threads : Disconnect(t)
    \/ \E t \in threads : Resume(t)

Spec == Init /\ [][Next]_vars

(***************************************************************************)
(* What the properties below read off a state.                             *)
(***************************************************************************)
\* the call of caller t has ended and it was a call of the method name
Ended(t, name) == pc[t] = "done" /\ op[t].name = name

Failed(t) == exc[t] # None

\* the type of the exception the call of t raised
Raised(t, type) == exc[t] # None /\ exc[t][1].type = type

\* the transport calls of one kind in the log of t
Calls(t, kind) == SelectSeq(log[t], LAMBDA e : e.call = kind)

\* the sessions the current call of t opened
Opened(t) ==
    LET c == Calls(t, "connect") IN {c[i].session : i \in {j \in DOMAIN c : c[j].ok}}

Mutators == {"power_on", "power_off", "set_sound", "set_volume", "set_color",
             "set_brightness"}

(***************************************************************************)
(* C1: connect() with neither an address nor a name fails with ValueError  *)
(* (the InvalidArgument of the design) before any transport call: it runs  *)
(* no scan, opens no session, and leaves self.device and the snapshot as   *)
(* they were, so a fresh instance stays without a session and snapshot.    *)
(***************************************************************************)
C1_NeitherGiven(t) == op[t].name = "connect" /\ op[t].args = <<None, None>>

C1_ConnectNeitherFails ==
    /\ [](\A t \in threads : C1_NeitherGiven(t) =>
            /\ pc[t] = "done"
            /\ Raised(t, "ValueError")
            /\ log[t] = <<>>)
    /\ [][\A t \in threads : C1_NeitherGiven(t)' /\ ~C1_NeitherGiven(t) =>
            UNCHANGED <<device, snapshot, sessions>>]_vars

C1_Witness ==
    \E t \in threads :
        /\ C1_NeitherGiven(t) /\ pc[t] = "done" /\ Raised(t, "ValueError")
        /\ device = None /\ snapshot = NoSnapshot /\ sessions = <<>>

(***************************************************************************)
(* C2: connect() with both an address and a name fails with ValueError     *)
(* (InvalidArgument) without scanning and without opening a session.       *)
(***************************************************************************)
C2_BothGivenFails ==
    \A t \in threads :
        Ended(t, "connect") /\ op[t].args[1] # None /\ op[t].args[2] # None =>
            Raised(t, "ValueError") /\ log[t] = <<>>

(***************************************************************************)
(* C3: connect(name=X) fails with RuntimeError (DeviceNotFound), with no   *)
(* session opened, whenever no scan result is named X; and when one is,    *)
(* the session is opened at the address of the first such result and at    *)
(* no other.  (A scan that itself fails is the transport's error.)         *)
(***************************************************************************)
C3_NameResolved ==
    \A t \in threads :
        Ended(t, "connect") /\ op[t].args[1] # None /\ op[t].args[2] = None =>
            LET X == op[t].args[1][1]
                scans == Calls(t, "scan")
                conns == Calls(t, "connect")
                found == {i \in DOMAIN scans :
                            scans[i].ok /\ \E k \in DOMAIN scans[i].data[1] :
                                              scans[i].data[1][k].name = X}
            IN  (\A i \in DOMAIN scans : scans[i].ok) =>
                    IF found = {}
                    THEN Raised(t, "RuntimeError") /\ conns = <<>>
                    ELSE /\ Len(scans) = 1
                         /\ Len(conns) = 1
                         /\ LET devices == scans[1].data[1]
                                first == CHOOSE k \in DOMAIN devices :
                                           /\ devices[k].name = X
                                           /\ \A j \in 1..(k - 1) : devices[j].name # X
                            IN  conns[1].address = Some(devices[first].address)

(***************************************************************************)
(* C4: when the first refresh of connect() fails after the session was     *)
(* opened, the session just opened is released and the instance is back    *)
(* without a live session: a failed connect() leaves no open session.      *)
(***************************************************************************)
C4_FailedConnectReleases ==
    \A t \in threads :
        Ended(t, "connect") /\ Failed(t) =>
            /\ \A s \in Opened(t) : ~sessions[s]
            /\ device = None \/ ~sessions[device[1]]

(***************************************************************************)
(* C5: a _refresh_data() or _send_command() that fails at any step (write  *)
(* error, read error, short packet, marker mismatch, undecodable field)    *)
(* leaves color, brightness, sound, volume and power exactly as the call   *)
(* found them.                                                             *)
(***************************************************************************)
C5_InCall(t) ==
    \/ op[t].name \in Mutators \cup {"refresh"}
    \/ op[t].name = "connect" /\ Opened(t) # {}

C5_FailureKeepsSnapshot ==
    \A t \in threads :
        pc[t] = "done" /\ Failed(t) /\ C5_InCall(t) => snapshot = before[t]

C5_Witness ==
    \E t \in threads :
        /\ Ended(t, "set_volume") /\ Raised(t, "ValueError")
        /\ Len(log[t]) = 3 /\ log[t][3].call = "read" /\ log[t][3].ok
        /\ color = Some(<<16, 32, 48>>) /\ snapshot = before[t]

(***************************************************************************)
(* Status packets as the properties read them: straight from the bytes.    *)
(***************************************************************************)
\* the last FEEDBACK read of the call of t, when it has made one
HasRead(t) == Calls(t, "read") # <<>>

LastRead(t) == Calls(t, "read")[Len(Calls(t, "read"))]

\* at least 15 bytes, with 0x43 at offset 5, 0x53 at offset 10, 0x50 at offset 13
WellFormed(p) == Len(p) >= 15 /\ p[6] = 67 /\ p[11] = 83 /\ p[14] = 80

\* a marker that is there and is not the byte expected
MarkerMismatch(p) ==
    \/ Len(p) > 5 /\ p[6] # 67
    \/ Len(p) > 10 /\ p[11] # 83
    \/ Len(p) > 13 /\ p[14] # 80

\* byte b has none of its top two bits set
TopTwoBitsClear(b) == (b \div 128) % 2 = 0 /\ (b \div 64) % 2 = 0

\* the snapshot the design reads off a well-formed packet
SnapshotOf(p) ==
    <<Some(<<p[7], p[8], p[9]>>), Some(p[10]), Some(p[12]), Some(p[13]),
      Some(TopTwoBitsClear(p[15]))>>

(***************************************************************************)
(* C6: the snapshot is replaced only by a packet of at least 15 bytes with *)
(* the three markers in place; for every packet that is shorter or fails a *)
(* marker check the refresh fails, with an error that identifies the       *)
(* failing marker, and no field of the packet reaches the snapshot.        *)
(***************************************************************************)
C6_MalformedRejected ==
    \A t \in threads :
        pc[t] = "done" /\ HasRead(t) /\ LastRead(t).ok
                /\ ~WellFormed(LastRead(t).data[1]) =>
            /\ Failed(t)
            /\ snapshot = before[t]
            /\ MarkerMismatch(LastRead(t).data[1]) => exc[t][1].args # <<>>

(***************************************************************************)
(* C7: for every value b in 0..255 of status byte 14 the decoded power is  *)
(* true exactly when b has none of its top two bits set; 0x00 and 0x3F     *)
(* decode to on, and 0x40, 0x80 and 0xC0 to off.                           *)
(***************************************************************************)
\* well-formed packets with every value of byte 14
PowerPackets == {MkPacket(16, 32, 48, 255, 2, 100, b) : b \in 0..255}

\* an instance that connected and read PacketOn
InitPower ==
    /\ adapter = "started"
    /\ device = Some(1)
    /\ color = Some(<<16, 32, 48>>)
    /\ brightness = Some(255)
    /\ sound = Some(2)
    /\ volume = Some(100)
    /\ power = Some(TRUE)
    /\ sessions = <<TRUE>>
    /\ threads = Callers
    /\ pc = [t \in Callers |-> "idle"]
    /\ op = [t \in Callers |-> NoOp]
    /\ ret = [t \in Callers |-> "return"]
    /\ loc = [t \in Callers |-> NoLocals]
    /\ exc = [t \in Callers |-> None]
    /\ log = [t \in Callers |-> <<>>]
    /\ before = [t \in Callers |-> NoSnapshot]

\* refreshes of that instance, the device's byte 14 taking any value
NextPower ==
    \/ \E t \in threads : Refresh(t)
    \/ \E t \in threads : RefreshReadFrom(t, PowerPackets)
    \/ \E t \in threads : RefreshDecode(t)
    \/ \E t \in threads : AssignColor(t)
    \/ \E t \in threads : AssignBrightness(t)
    \/ \E t \in threads : AssignSound(t)
    \/ \E t \in threads : AssignVolume(t)
    \/ \E t \in threads : AssignPower(t)
    \/ \E t \in threads : Resume(t)

SpecPower == InitPower /\ [][NextPower]_vars

C7_PowerDecoding ==
    \A t \in threads :
        Ended(t, "refresh") /\ HasRead(t) /\ LastRead(t).ok =>
            LET b == LastRead(t).data[1][15] IN
            /\ ~Failed(t)
            /\ power = Some(TopTwoBitsClear(b))
            /\ b \in {0, 63} => power = Some(TRUE)
            /\ b \in {64, 128, 192} => power = Some(FALSE)

C7_Witness ==
    \E t \in threads :
        /\ Ended(t, "refresh") /\ HasRead(t) /\ LastRead(t).ok
        /\ LastRead(t).data[1][15] = 64 /\ power = Some(FALSE)

(***************************************************************************)
(* C8: a well-formed packet whose sound byte is outside the enumeration    *)
(* never makes the refresh fail: the refresh succeeds, the sound field     *)
(* carries that byte and the other four fields come from the same packet.  *)
(***************************************************************************)
C8_UnknownSoundAccepted ==
    \A t \in threads :
        pc[t] = "done" /\ HasRead(t) /\ LastRead(t).ok
                /\ WellFormed(LastRead(t).data[1])
                /\ LastRead(t).data[1][12] \notin KnownSounds =>
            ~Failed(t) /\ snapshot = SnapshotOf(LastRead(t).data[1])

(***************************************************************************)
(* C9: every mutator that completes performs exactly one TX write, then    *)
(* the settle delay, then a FEEDBACK read, in that order and as the last   *)
(* three transport calls of the call (set_color and set_brightness after   *)
(* their one pre-read); the snapshot it leaves is the decode of the packet *)
(* read after the write.                                                   *)
(***************************************************************************)
C9_MutatorOrder ==
    \A t \in threads :
        pc[t] = "done" /\ ~Failed(t) /\ op[t].name \in Mutators =>
            LET n == Len(log[t]) IN
            /\ n = IF op[t].name \in {"set_color", "set_brightness"} THEN 4 ELSE 3
            /\ Len(Calls(t, "write")) = 1
            /\ log[t][n - 2].call = "write"
            /\ log[t][n - 2].ok /\ log[t][n - 2].handle = CHAR_TX
            /\ log[t][n - 1].call = "sleep" /\ log[t][n - 1].ms = 250
            /\ log[t][n].call = "read"
            /\ log[t][n].ok /\ log[t][n].handle = CHAR_FEEDBACK
            /\ n = 4 => log[t][1].call = "read"
            /\ snapshot = SnapshotOf(log[t][n].data[1])

C9_Witness ==
    \E t \in threads :
        /\ Ended(t, "set_sound") /\ ~Failed(t) /\ op[t].args = <<7>>
        /\ Len(log[t]) = 3 /\ log[t][3].data = Some(PacketOff)
        /\ sound = Some(7) /\ power = Some(FALSE)

(***************************************************************************)
(* C10: a set_brightness(b) that completes makes exactly two FEEDBACK      *)
(* reads, one before and one after its single write, and writes "SC" with  *)
(* the three color bytes of its pre-read and b as fourth byte;             *)
(* set_color(r, g, b) writes "SC" with r, g, b and the brightness of its   *)
(* pre-read (arguments in 0..255), whatever the device reported before.    *)
(***************************************************************************)
\* the value of an ASCII lowercase hex digit, and of two of them
C10_Nibble(code) == IF code >= 97 THEN code - 87 ELSE code - 48

C10_Byte(bytes, k) == 16 * C10_Nibble(bytes[2 * k + 1]) + C10_Nibble(bytes[2 * k + 2])

\* the bytes written are "SC" and four two-digit groups with these values
C10_IsColorCommand(bytes, r, g, b, br) ==
    /\ Len(bytes) = 10
    /\ bytes[1] = 83 /\ bytes[2] = 67
    /\ \A i \in 3..10 : bytes[i] \in (48..57) \cup (97..102)
    /\ <<C10_Byte(bytes, 1), C10_Byte(bytes, 2), C10_Byte(bytes, 3),
         C10_Byte(bytes, 4)>> = <<r, g, b, br>>

C10_PreReadUsed ==
    \A t \in threads :
        /\ pc[t] = "done" /\ ~Failed(t)
        /\ op[t].name \in {"set_color", "set_brightness"}
        /\ \A i \in DOMAIN op[t].args : op[t].args[i] \in 0..255
        => /\ Len(Calls(t, "read")) = 2
           /\ Len(Calls(t, "write")) = 1
           /\ Len(log[t]) = 4
           /\ log[t][1].call = "read" /\ log[t][2].call = "write"
           /\ log[t][4].call = "read"
           /\ LET pre == log[t][1].data[1]
                  a == op[t].args
              IN  IF op[t].name = "set_brightness"
                  THEN C10_IsColorCommand(log[t][2].data, pre[7], pre[8], pre[9], a[1])
                  ELSE C10_IsColorCommand(log[t][2].data, a[1], a[2], a[3], pre[10])

C10_Witness ==
    \E t \in threads :
        /\ Ended(t, "set_brightness") /\ ~Failed(t) /\ op[t].args = <<200>>
        /\ Len(log[t]) = 4
        /\ log[t][1].data = Some(PacketOff) /\ log[t][4].data = Some(PacketOn)
        /\ log[t][2].data = <<83, 67, 48, 49, 48, 50, 48, 51, 99, 56>>

(***************************************************************************)
(* C11: a mutator called with an argument outside 0..255 fails with        *)
(* ValueError and writes nothing to the TX characteristic: no command with *)
(* an argument wider than two hex digits or with a sign is ever written.   *)
(* (The error is looked at on an instance with a live session, where       *)
(* nothing else stops the call.)                                           *)
(***************************************************************************)
C11_OutOfRange(t) ==
    /\ op[t].name \in Mutators
    /\ \E i \in DOMAIN op[t].args : op[t].args[i] \notin 0..255

C11_OutOfRangeRejected ==
    \A t \in threads :
        C11_OutOfRange(t) =>
            /\ Calls(t, "write") = <<>>
            /\ pc[t] = "done" /\ device # None /\ sessions[device[1]] =>
                   Raised(t, "ValueError")

(***************************************************************************)
(* The commands and the status packet against each other: a connected      *)
(* instance, one call of a mutator with every byte value, and a device     *)
(* that reports a color command back in the packet read after it.          *)
(***************************************************************************)
\* color arguments in which each component takes every value of 0..255
ColorTriples == {<<r, 255 - r, (r * 7) % 256>> : r \in 0..255}

\* what the device reports when no color command was written
CodecPackets == {PacketOn, PacketOff}

\* the value the device reads in the k-th two-digit group of a command
ArgumentByte(bytes, k) ==
    LET digit(code) == DigitValue(AsciiChars[CHOOSE i \in DOMAIN AsciiCodes :
                                                AsciiCodes[i] = code])
    IN  16 * digit(bytes[2 * k + 1]) + digit(bytes[2 * k + 2])

\* the packets a FEEDBACK read of caller t may return: after a written "SC"
\* command of four groups, the packet with its four bytes at offsets 6..9
DeviceReports(t) ==
    LET w == Calls(t, "write") IN
    IF w # <<>> /\ w[Len(w)].ok /\ Len(w[Len(w)].data) = 10
            /\ w[Len(w)].data[1] = 83 /\ w[Len(w)].data[2] = 67
    THEN {MkPacket(ArgumentByte(w[Len(w)].data, 1), ArgumentByte(w[Len(w)].data, 2),
                   ArgumentByte(w[Len(w)].data, 3), ArgumentByte(w[Len(w)].data, 4),
                   2, 100, 0)}
    ELSE CodecPackets

NextCodec ==
    \/ \E t \in threads : PowerOn(t)
    \/ \E t \in threads : PowerOff(t)
    \/ \E t \in threads, s \in 0..255 : SetSound(t, s)
    \/ \E t \in threads, v \in 0..255 : SetVolume(t, v)
    \/ \E t \in threads, rgb \in ColorTriples : SetColor(t, rgb)
    \/ \E t \in threads, b \in 0..255 : SetBrightness(t, b)
    \/ \E t \in threads : SetColorFormat(t)
    \/ \E t \in threads : SetBrightnessFormat(t)
    \/ \E t \in threads : SendWrite(t)
    \/ \E t \in threads : SendSleep(t)
    \/ \E t \in threads : RefreshReadFrom(t, DeviceReports(t))
    \/ \E t \in threads : RefreshDecode(t)
    \/ \E t \in threads : AssignColor(t)
    \/ \E t \in threads : AssignBrightness(t)
    \/ \E t \in threads : AssignSound(t)
    \/ \E t \in threads : AssignVolume(t)
    \/ \E t \in threads : AssignPower(t)

SpecCodec == InitPower /\ [][NextCodec]_vars

(***************************************************************************)
(* C12: for arguments in 0..255 the command written is the two-letter      *)
(* opcode and one zero-padded lowercase two-digit hex group per argument:  *)
(* "SI01", "SI00", "SN"+hex2(c), "SV"+hex2(v), and                         *)
(* "SC"+hex2(r)+hex2(g)+hex2(b)+hex2(brightness), of length                *)
(* 2 + 2 * (number of arguments).                                          *)
(***************************************************************************)
\* the ASCII code of the lowercase hex digit n, and the two of a byte
C12_HexCode(n) == IF n < 10 THEN 48 + n ELSE 87 + n

C12_Hex2(v) == <<C12_HexCode(v \div 16), C12_HexCode(v % 16)>>

\* the opcode and the arguments of the command the call of t is to write
C12_Opcode(t) ==
    CASE op[t].name \in {"power_on", "power_off"} -> <<83, 73>>
      [] op[t].name = "set_sound" -> <<83, 78>>
      [] op[t].name = "set_volume" -> <<83, 86>>
      [] op[t].name \in {"set_color", "set_brightness"} -> <<83, 67>>

C12_Arguments(t) ==
    LET a == op[t].args
        pre == log[t][1].data[1]
    IN  CASE op[t].name = "power_on" -> <<1>>
          [] op[t].name = "power_off" -> <<0>>
          [] op[t].name \in {"set_sound", "set_volume"} -> a
          [] op[t].name = "set_color" -> <<a[1], a[2], a[3], pre[10]>>
          [] op[t].name = "set_brightness" -> <<pre[7], pre[8], pre[9], a[1]>>

C12_CommandFormat ==
    \A t \in threads :
        \A i \in DOMAIN Calls(t, "write") :
            LET data == Calls(t, "write")[i].data
                args == C12_Arguments(t)
            IN  /\ Len(data) = 2 + 2 * Len(args)
                /\ SubSeq(data, 1, 2) = C12_Opcode(t)
                /\ \A k \in DOMAIN args :
                     SubSeq(data, 2 * k + 1, 2 * k + 2) = C12_Hex2(args[k])

C12_Witness ==
    \E t \in threads :
        /\ Ended(t, "set_volume") /\ op[t].args = <<10>> /\ ~Failed(t)
        /\ Calls(t, "write")[1].data = <<83, 86, 48, 97>>

(***************************************************************************)
(* C13: round trip.  For r, g, b, bright in 0..255, the four argument      *)
(* bytes of the color command for (r, g, b, bright), placed at offsets     *)
(* 6..9 of an otherwise well-formed packet, decode to color = (r, g, b)    *)
(* and brightness = bright.                                                *)
(***************************************************************************)
C13_RoundTrip ==
    \A t \in threads :
        /\ op[t].name \in {"set_color", "set_brightness"}
        /\ Len(log[t]) = 4 /\ log[t][4].call = "read" /\ log[t][4].ok
        => /\ ~Failed(t)
           /\ pc[t] = "done" =>
                LET pre == log[t][1].data[1]
                    a == op[t].args
                IN  IF op[t].name = "set_color"
                    THEN color = Some(a) /\ brightness = Some(pre[10])
                    ELSE /\ color = Some(<<pre[7], pre[8], pre[9]>>)
                         /\ brightness = Some(a[1])

C13_Witness ==
    \E t \in threads :
        /\ Ended(t, "set_color") /\ ~Failed(t) /\ op[t].args = <<200, 55, 120>>
        /\ Len(log[t]) = 4 /\ log[t][1].data = Some(PacketOff)
        /\ color = Some(<<200, 55, 120>>) /\ brightness = Some(4)

(***************************************************************************)
(* C14: every operation that requires the Connected state fails with       *)
(* NotConnected when the instance is not connected: refresh and every      *)
(* mutator called before any successful connect or after disconnect fail   *)
(* with NotConnected and perform no transport read or write, and           *)
(* disconnect() when already disconnected fails with NotConnected.  The    *)
(* transport's own BLEError is counted as NotConnected here.               *)
(***************************************************************************)
\* the instance holds no session with a link
C14_NotConnected == device = None \/ ~sessions[device[1]]

\* the call of t has ended and was made on an instance that was not connected
\* (no other operation than connect and a successful disconnect changes that)
C14_CalledNotConnected(t) ==
    /\ pc[t] = "done" /\ C14_NotConnected
    /\ \/ op[t].name \in Mutators \cup {"refresh"}
       \/ op[t].name = "disconnect" /\ Failed(t)

C14_NotConnectedFails ==
    \A t \in threads :
        C14_CalledNotConnected(t) =>
            /\ Raised(t, "BLEError")
            /\ \A i \in DOMAIN log[t] :
                 log[t][i].call \in {"read", "write"} => ~log[t][i].ok

(***************************************************************************)
(* C17: connect() with only an address never scans: it opens a session at  *)
(* exactly that address with the random address type, and then performs    *)
(* exactly one refresh.                                                    *)
(***************************************************************************)
\* the call of t is connect(addr = a) without a name
C17_AddressOnly(t) ==
    /\ op[t].name = "connect"
    /\ op[t].args[1] = None /\ op[t].args[2] # None

C17_DirectConnect ==
    \A t \in threads :
        C17_AddressOnly(t) =>
            /\ Calls(t, "scan") = <<>>
            /\ Len(Calls(t, "connect")) <= 1
            /\ Len(Calls(t, "read")) <= 1
            /\ \A i \in DOMAIN log[t] :
                 /\ log[t][i].call \in {"connect", "read"}
                 /\ log[t][i].call = "connect" =>
                      /\ i = 1
                      /\ log[t][i].address = op[t].args[2]
                      /\ log[t][i].address_type = "random"
            /\ pc[t] = "done" /\ ~Failed(t) =>
                 /\ Len(log[t]) = 2
                 /\ log[t][1].call = "connect" /\ log[t][1].ok
                 /\ log[t][2].call = "read" /\ log[t][2].ok
                 /\ device = Some(log[t][1].session)
                 /\ snapshot = SnapshotOf(log[t][2].data[1])

C17_Witness ==
    \E t \in threads :
        /\ Ended(t, "connect") /\ ~Failed(t)
        /\ op[t].args = <<None, Some("AA:02")>>
        /\ log[t][1].address = Some("AA:02")
        /\ Len(log[t]) = 2

(***************************************************************************)
(* C18: there are no automatic retries.  Each transport call is made at    *)
(* most once per protocol step and the first error ends the operation at   *)
(* once: after a failed TX write there is no delay, no read and no second  *)
(* write.                                                                  *)
(***************************************************************************)
\* the most reads one call makes: set_color and set_brightness read before
\* and after the write
C18_MaxReads(t) == IF op[t].name \in {"set_color", "set_brightness"} THEN 2 ELSE 1

C18_NoRetries ==
    \A t \in threads :
        /\ Len(Calls(t, "scan")) <= 1
        /\ Len(Calls(t, "connect")) <= 1
        /\ Len(Calls(t, "write")) <= 1
        /\ Len(Calls(t, "sleep")) <= 1
        /\ Len(Calls(t, "disconnect")) <= 1
        /\ Len(Calls(t, "read")) <= C18_MaxReads(t)
        /\ Failed(t) => pc[t] = "done"
        /\ \A i \in DOMAIN log[t] :
             log[t][i].call # "sleep" /\ ~log[t][i].ok =>
                 /\ i = Len(log[t])
                 /\ pc[t] = "done"
                 /\ Raised(t, "BLEError")

C18_Witness ==
    \E t \in threads :
        /\ Ended(t, "set_volume") /\ Raised(t, "BLEError")
        /\ Len(log[t]) = 1
        /\ log[t][1].call = "write" /\ ~log[t][1].ok
        /\ device # None /\ sessions[device[1]]

(***************************************************************************)
(* C19: the instance holds at most one open transport session.  After any  *)
(* sequence of connect and disconnect calls, connect() while already       *)
(* connected included, every session the instance ever opened is either    *)
(* the one it references or has been released; no open session is leaked.  *)
(***************************************************************************)
C19_NoLeakedSession ==
    \A i \in DOMAIN sessions : sessions[i] => device = Some(i)

(***************************************************************************)
(* C20: when the pre-read refresh of set_color or set_brightness fails,    *)
(* the call ends with that error and no "SC" command is written to TX: a   *)
(* color command is never built from values the same call failed to read.  *)
(***************************************************************************)
\* the packet is one a refresh stores: well-formed, with a sound code known
C20_Decodes(p) == WellFormed(p) /\ p[12] \in KnownSounds

\* the first transport call of t, the pre-read, did not give a snapshot
C20_PreReadFailed(t) ==
    /\ op[t].name \in {"set_color", "set_brightness"}
    /\ \/ log[t] # <<>> /\ log[t][1].call = "read"
            /\ (log[t][1].ok => ~C20_Decodes(log[t][1].data[1]))
       \/ log[t] = <<>> /\ Failed(t)

C20_NoCommandAfterFailedPreRead ==
    \A t \in threads :
        /\ C20_PreReadFailed(t) =>
             /\ Calls(t, "write") = <<>>
             /\ Len(log[t]) <= 1
             /\ pc[t] \in {"refresh_decode", "done"}
             /\ pc[t] = "done" => Failed(t) /\ snapshot = before[t]
        /\ op[t].name \in {"set_color", "set_brightness"}
              /\ Calls(t, "write") # <<>> =>
             /\ log[t][1].call = "read" /\ log[t][1].ok
             /\ C20_Decodes(log[t][1].data[1])
             /\ log[t][2].call = "write"

C20_Witness ==
    \E t \in threads :
        /\ Ended(t, "set_color") /\ Raised(t, "AssertionError")
        /\ Len(log[t]) = 1 /\ log[t][1].call = "read"
        /\ log[t][1].data = Some(PacketBadAudioMarker)

(***************************************************************************)
(* Two callers on one instance.  The instance has connected and read       *)
(* PacketOn; each caller makes one call, and their steps interleave as the *)
(* threads of the callers do, the source taking no lock.                   *)
(***************************************************************************)
ConcurrentCallers == {"t1", "t2"}

\* what the device reports to the two callers
ConcurrentPackets == {PacketOn, PacketOff}

InitConcurrent ==
    /\ adapter = "started"
    /\ device = Some(1)
    /\ color = Some(<<16, 32, 48>>)
    /\ brightness = Some(255)
    /\ sound = Some(2)
    /\ volume = Some(100)
    /\ power = Some(TRUE)
    /\ sessions = <<TRUE>>
    /\ threads = ConcurrentCallers
    /\ pc = [t \in ConcurrentCallers |-> "idle"]
    /\ op = [t \in ConcurrentCallers |-> NoOp]
    /\ ret = [t \in ConcurrentCallers |-> "return"]
    /\ loc = [t \in ConcurrentCallers |-> NoLocals]
    /\ exc = [t \in ConcurrentCallers |-> None]
    /\ log = [t \in ConcurrentCallers |-> <<>>]
    /\ before = [t \in ConcurrentCallers |-> NoSnapshot]

NextConcurrent ==
    \/ \E t \in threads : Refresh(t)
    \/ \E t \in threads : PowerOn(t)
    \/ \E t \in threads : PowerOff(t)
    \/ \E t \in threads : SendWrite(t)
    \/ \E t \in threads : SendSleep(t)
    \/ \E t \in threads : RefreshReadFrom(t, ConcurrentPackets)
    \/ \E t \in threads : RefreshDecode(t)
    \/ \E t \in threads : AssignColor(t)
    \/ \E t \in threads : AssignBrightness(t)
    \/ \E t \in threads : AssignSound(t)
    \/ \E t \in threads : AssignVolume(t)
    \/ \E t \in threads : AssignPower(t)

SpecConcurrent == InitConcurrent /\ [][NextConcurrent]_vars

(***************************************************************************)
(* C15: concurrent calls on one instance are serialized: no TX write or    *)
(* FEEDBACK read of one operation falls between the TX write and the       *)
(* post-write refresh of another, so at most one command is in flight.     *)
(***************************************************************************)
\* the command of t was written and its post-write refresh has not ended
C15_InFlight(t) ==
    /\ pc[t] \notin {"idle", "done"}
    /\ \E i \in DOMAIN log[t] : log[t][i].call = "write" /\ log[t][i].ok

C15_OneCommandInFlight ==
    \A t, u \in threads : C15_InFlight(t) /\ C15_InFlight(u) => t = u

(***************************************************************************)
(* C16: in every state observable between public operations, after any     *)
(* sequence of possibly concurrent connects, refreshes and mutators, the   *)
(* five cached fields are all unset or all decoded from one and the same   *)
(* status packet.                                                          *)
(***************************************************************************)
\* no caller is inside a call
C16_Quiescent == \A t \in threads : pc[t] \in {"idle", "done"}

C16_SnapshotOfOnePacket ==
    C16_Quiescent =>
        \/ snapshot = NoSnapshot
        \/ \E p \in ConcurrentPackets : snapshot = SnapshotOf(p)

====
